---------------------------- MODULE Spec2Model ----------------------------
(***************************************************************************)
(* Model of two parts of spec-kitty:                                       *)
(*   - CopilotInvoker (orchestrator/agents/copilot.py): is_installed,      *)
(*     build_command, parse_output and the file-path extractor;           *)
(*   - the interactive wizard (cli/commands/wizard.py): `wizard new` and   *)
(*     `wizard update`, with the notes file they write and stage.          *)
(* Text is a sequence of one-character strings, so that lower(), strip(),  *)
(* split("\n"), substring tests and the regular expressions are computed   *)
(* character by character as Python computes them.                         *)
(***************************************************************************)
EXTENDS Integers, Sequences, FiniteSets, TLC

VARIABLES
    \* one call of CopilotInvoker.parse_output
    stdout, stderr, exit_code, duration_seconds, result, pc,
    \* the calls made on one CopilotInvoker object and its environment
    \* (installed: the value the last is_installed call returned, if any)
    path_has_copilot, installed, last_build, prev_build,
    \* the working tree and one run of the wizard
    dirs, notes_files, staged, cmd, wpc, feature_slug, mission, raw_notes,
    feature, notes_file, returncode, wizard_exit, trace, kitty_specs

parseVars == <<stdout, stderr, exit_code, duration_seconds, result, pc>>
invokerVars == <<path_has_copilot, installed, last_build, prev_build>>
treeVars == <<kitty_specs, dirs, notes_files, staged>>
runVars == <<cmd, wpc, feature_slug, mission, raw_notes, feature, notes_file,
             returncode, wizard_exit, trace>>
wizardVars == <<treeVars, runVars>>
vars == <<parseVars, invokerVars, wizardVars>>

----------------------------------------------------------------------------
(* Text primitives (Python str methods used by the code)                   *)

UpperChars == <<"A", "B", "C", "D", "E", "F", "G", "H", "I", "J", "K", "L", "M",
                "N", "O", "P", "Q", "R", "S", "T", "U", "V", "W", "X", "Y", "Z">>
LowerChars == <<"a", "b", "c", "d", "e", "f", "g", "h", "i", "j", "k", "l", "m",
                "n", "o", "p", "q", "r", "s", "t", "u", "v", "w", "x", "y", "z">>
DigitChars == {"0", "1", "2", "3", "4", "5", "6", "7", "8", "9"}

Range(s) == {s[i] : i \in DOMAIN s}

\* the lower-case letter of each upper-case letter
UpperToLower ==
    [c \in Range(UpperChars) |-> LowerChars[CHOOSE i \in 1..26 : UpperChars[i] = c]]

\* str.lower() on one character
lower_char(c) == IF c \in DOMAIN UpperToLower THEN UpperToLower[c] ELSE c

\* str.lower()
lower(s) == [i \in 1..Len(s) |-> lower_char(s[i])]

\* \s of the regular expressions and the characters str.strip() removes
IsSpace(c) == c \in {" ", "\n", "\t"}

\* ['\"] of the file patterns
IsQuote(c) == c \in {"'", "\""}

\* \w of the regular expressions
WordChars == Range(UpperChars) \cup Range(LowerChars) \cup DigitChars \cup {"_"}
IsWord(c) == c \in WordChars

\* [^\s'\"] of the file patterns
IsPathChar(c) == ~IsSpace(c) /\ ~IsQuote(c)

\* `sub in s`
Contains(s, sub) ==
    \/ sub = <<>>
    \/ \E i \in 0..(Len(s) - Len(sub)) :
            s[i + 1] = sub[1] /\ SubSeq(s, i + 1, i + Len(sub)) = sub

\* str.strip()
strip(s) ==
    LET keep == {i \in 1..Len(s) : ~IsSpace(s[i])}
    IN  IF keep = {} THEN <<>>
        ELSE SubSeq(s, CHOOSE i \in keep : \A j \in keep : i <= j,
                       CHOOSE i \in keep : \A j \in keep : j <= i)

\* str.split("\n"): the pieces between newlines, empty pieces kept
RECURSIVE split_from(_, _)
split_from(s, start) ==
    LET nl == {i \in start..Len(s) : s[i] = "\n"}
    IN  IF nl = {} THEN <<SubSeq(s, start, Len(s))>>
        ELSE LET i == CHOOSE k \in nl : \A j \in nl : k <= j
             IN  <<SubSeq(s, start, i - 1)>> \o split_from(s, i + 1)

split_lines(s) == split_from(s, 1)

\* "\n".join(lines)
RECURSIVE join_lines(_)
join_lines(lines) ==
    IF lines = <<>> THEN <<>>
    ELSE IF Len(lines) = 1 THEN lines[1]
    ELSE lines[1] \o <<"\n">> \o join_lines(Tail(lines))

\* list[:n]
Take(s, n) == SubSeq(s, 1, IF Len(s) < n THEN Len(s) ELSE n)

\* [x for x in s if Test(x)], order kept
RECURSIVE SelectFrom(_, _, _)
SelectFrom(s, i, keep) ==
    IF i > Len(s) THEN <<>>
    ELSE (IF i \in keep THEN <<s[i]>> ELSE <<>>) \o SelectFrom(s, i + 1, keep)

\* every list holding each element of S exactly once
ListsOfSet(S) ==
    {f \in [1..Cardinality(S) -> S] : \A i, j \in 1..Cardinality(S) : i # j => f[i] # f[j]}

SeqsUpTo(S, n) == UNION {[1..k -> S] : k \in 0..n}

----------------------------------------------------------------------------
(* CopilotInvoker._extract_files_from_text                                 *)

\* the verb alternatives of the two patterns (matched with re.IGNORECASE)
Verbs1 == << <<"c", "r", "e", "a", "t", "e", "d">>,
             <<"m", "o", "d", "i", "f", "i", "e", "d">>,
             <<"u", "p", "d", "a", "t", "e", "d">>,
             <<"w", "r", "o", "t", "e">>,
             <<"e", "d", "i", "t", "e", "d">> >>
Verbs2 == << <<"w", "r", "i", "t", "i", "n", "g", " ", "t", "o">>,
             <<"s", "a", "v", "i", "n", "g">> >>
patterns == <<Verbs1, Verbs2>>

\* membership in one of the character classes of the patterns
InClass(class, c) ==
    CASE class = "space" -> IsSpace(c)
      [] class = "path" -> IsPathChar(c)
      [] class = "word" -> IsWord(c)

\* end (exclusive) of the longest run of characters of a class from p on
RunEnd(class, text, p) ==
    CHOOSE j \in p..(Len(text) + 1) :
        /\ (j = Len(text) + 1 \/ ~InClass(class, text[j]))
        /\ \A k \in p..(j - 1) : InClass(class, text[k])

\* length of the verb alternative matching at position i, 0 if none does;
\* no alternative is a prefix of another, so at most one matches
VerbAt(text, i, verbs) ==
    LET hits == {k \in 1..Len(verbs) :
                    /\ i + Len(verbs[k]) - 1 <= Len(text)
                    /\ lower_char(text[i]) = verbs[k][1]
                    /\ lower(SubSeq(text, i, i + Len(verbs[k]) - 1)) = verbs[k]}
    IN  IF hits = {} THEN 0 ELSE Len(verbs[CHOOSE k \in hits : TRUE])

\* one attempt of  (?:verbs)\s+['\"]?([^\s'\"]+\.\w+)['\"]?  at position i:
\* greedy \s+, greedy optional quote, then the class run backtracks to its
\* last "." that a word character follows; \w+ and the closing quote are greedy
MatchAt(text, i, verbs) ==
    LET vlen == VerbAt(text, i, verbs)
        s0   == i + vlen
        s1   == RunEnd("space", text, s0)
        q    == IF s1 <= Len(text) /\ IsQuote(text[s1]) THEN s1 + 1 ELSE s1
        r    == RunEnd("path", text, q)
        dots == {e \in (q + 1)..(r - 2) : text[e] = "." /\ IsWord(text[e + 1])}
        e    == CHOOSE d \in dots : \A d2 \in dots : d2 <= d
        w    == RunEnd("word", text, e + 1)
    IN  IF vlen = 0 \/ s1 = s0 \/ dots = {}
        THEN [matched |-> FALSE, group |-> <<>>, end |-> i]
        ELSE [matched |-> TRUE, group |-> SubSeq(text, q, w - 1),
              end |-> IF w <= Len(text) /\ IsQuote(text[w]) THEN w + 1 ELSE w]

\* re.findall(pattern, text, re.IGNORECASE): leftmost non-overlapping matches
RECURSIVE findall(_, _, _)
findall(verbs, text, pos) ==
    IF pos > Len(text) THEN <<>>
    ELSE LET m == MatchAt(text, pos, verbs)
         IN  IF m.matched THEN <<m.group>> \o findall(verbs, text, m.end)
             ELSE findall(verbs, text, pos + 1)

\* the list `files` after the loop over the patterns (duplicates kept)
files_found(text) == findall(patterns[1], text, 1) \o findall(patterns[2], text, 1)

\* a bug: the list is returned as collected
extract_files_no_dedup(text) == {files_found(text)}

\* list(set(files)): the order of a set's elements is unspecified, so the
\* value is any list of the distinct paths
_extract_files_from_text(text) == ListsOfSet(Range(files_found(text)))

----------------------------------------------------------------------------
(* BaseInvoker extractors (base.py), used on stderr                        *)

KwError == <<"e", "r", "r", "o", "r">>
KwFailed == <<"f", "a", "i", "l", "e", "d">>
KwWarning == <<"w", "a", "r", "n", "i", "n", "g">>

\* the line test of the stdout scan: "error" in line.lower() or "failed" in line.lower()
IsErrorLine(line) == Contains(lower(line), KwError) \/ Contains(lower(line), KwFailed)

\* plain-text error extractor: the lines with error vocabulary, not capped
_extract_errors_from_output(data, text) ==
    LET lines == split_lines(text)
    IN  SelectFrom([i \in 1..Len(lines) |-> strip(lines[i])], 1,
                   {i \in 1..Len(lines) : IsErrorLine(lines[i])})

\* plain-text warning extractor: the lines with warning vocabulary, not capped
_extract_warnings_from_output(data, text) ==
    LET lines == split_lines(text)
    IN  SelectFrom([i \in 1..Len(lines) |-> strip(lines[i])], 1,
                   {i \in 1..Len(lines) : Contains(lower(lines[i]), KwWarning)})

----------------------------------------------------------------------------
(* CopilotInvoker.parse_output                                             *)

ErrorCap == 3

\* a bug: only exit code 1 counts as a failure
success_unless_one(code) == code # 1

\* success = exit_code == 0
success_of(code) == code = 0

\* a bug: stderr errors are reported whatever the exit code
stderr_errors_always(success, err) ==
    IF strip(err) # <<>> THEN _extract_errors_from_output("None", err) ELSE <<>>

\* if stderr.strip(): if not success: errors = ...
stderr_errors(success, err) ==
    IF strip(err) # <<>> /\ ~success
    THEN _extract_errors_from_output("None", err) ELSE <<>>

\* if stderr.strip(): warnings = ...
stderr_warnings(err) ==
    IF strip(err) # <<>> THEN _extract_warnings_from_output("None", err) ELSE <<>>

\* a bug: the lines are tested without lower()
error_lines_case_sensitive(out) ==
    LET lines == split_lines(out)
    IN  SelectFrom([i \in 1..Len(lines) |-> strip(lines[i])], 1,
                   {i \in 1..Len(lines) :
                        Contains(lines[i], KwError) \/ Contains(lines[i], KwFailed)})

\* a bug: the lines are kept untrimmed
error_lines_untrimmed(out) ==
    LET lines == split_lines(out)
    IN  SelectFrom(lines, 1, {i \in 1..Len(lines) : IsErrorLine(lines[i])})

\* error_lines = [line.strip() for line in stdout.split("\n") if ...]
error_lines(out) ==
    LET lines == split_lines(out)
    IN  SelectFrom([i \in 1..Len(lines) |-> strip(lines[i])], 1,
                   {i \in 1..Len(lines) : IsErrorLine(lines[i])})

\* if not success and not errors: ... errors.extend(error_lines[:3])
stdout_errors(success, errors, out) ==
    IF ~success /\ errors = <<>> /\ IsErrorLine(out)
    THEN errors \o Take(error_lines(out), ErrorCap)
    ELSE errors

\* the InvocationResult values parse_output can return (one per order of
\* files_modified)
parse_output(out, err, code, duration) ==
    LET success == success_of(code)
        errors  == stdout_errors(success, stderr_errors(success, err), out)
    IN  {[success |-> success, exit_code |-> code, stdout |-> out, stderr |-> err,
          duration_seconds |-> duration, files_modified |-> fm,
          commits_made |-> <<>>, errors |-> errors,
          warnings |-> stderr_warnings(err)] : fm \in _extract_files_from_text(out)}

----------------------------------------------------------------------------
(* Inputs of parse_output                                                  *)

MaxLines == 4

\* "wrote a.py", "saving a.py Failed ", " ERROR x" and "ok"
SampleLines == { <<"o", "k">>,
                 <<"w", "r", "o", "t", "e", " ", "a", ".", "p", "y">>,
                 <<"s", "a", "v", "i", "n", "g", " ", "a", ".", "p", "y", " ", "F", "a", "i", "l", "e", "d", " ">>,
                 <<" ", "E", "R", "R", "O", "R", " ", "x">> }

ScenarioA == <<"C", "r", "e", "a", "t", "e", "d", " ", "s", "r", "c", "/", "a", "p", "p", ".", "p", "y", "\n",
               "M", "o", "d", "i", "f", "i", "e", "d", " ", "s", "r", "c", "/", "u", "t", "i", "l", ".", "p", "y", "\n">>
ScenarioB == <<"S", "o", "m", "e", "t", "h", "i", "n", "g", " ", "w", "e", "n", "t", " ", "w", "r", "o", "n", "g", "\n",
               "F", "a", "i", "l", "e", "d", " ", "t", "o", " ", "c", "o", "m", "p", "i", "l", "e", "\n">>
ScenarioD == <<"c", "r", "e", "a", "t", "i", "n", "g", " ", "f", "i", "l", "e", " ", "n", "o", "t", "e", "s", ".", "t", "x", "t">>

\* "Edited 'a.py'", then "writing to \"a.py\" updated a.py."
ScenarioQuoted == <<"E", "d", "i", "t", "e", "d", " ", "'", "a", ".", "p", "y", "'", "\n",
                    "w", "r", "i", "t", "i", "n", "g", " ", "t", "o", " ", "\"", "a", ".", "p", "y", "\"", " ",
                    "u", "p", "d", "a", "t", "e", "d", " ", "a", ".", "p", "y", ".">>

Stdouts == {join_lines(ls) : ls \in SeqsUpTo(SampleLines, MaxLines)}
               \cup {ScenarioA, ScenarioB, ScenarioD, ScenarioQuoted}

Stderrs == { <<>>,
             <<" ", "\n">>,
             <<"n", "o", "t", "e">>,
             <<"e", "r", "r", "o", "r", ":", " ", "b", "o", "o", "m", "\n">>,
             <<"W", "a", "r", "n", "i", "n", "g", ":", " ", "o", "l", "d">> }

ExitCodes == {0, 1, 137}
Durations == {0, 7}

NoResult == [none |-> TRUE]

InitParse ==
    /\ stdout \in Stdouts
    /\ stderr \in Stderrs
    /\ exit_code \in ExitCodes
    /\ duration_seconds \in Durations
    /\ result = NoResult
    /\ pc = "call"

\* the runner hands the captured output to parse_output
ParseOutput ==
    /\ pc = "call"
    /\ result' \in parse_output(stdout, stderr, exit_code, duration_seconds)
    /\ pc' = "done"
    /\ UNCHANGED <<stdout, stderr, exit_code, duration_seconds>>
    /\ UNCHANGED <<invokerVars, wizardVars>>

----------------------------------------------------------------------------
(* CopilotInvoker.is_installed and build_command                           *)

Copilot == <<"c", "o", "p", "i", "l", "o", "t">>
FlagP == <<"-", "p">>
FlagYolo == <<"-", "-", "y", "o", "l", "o">>
FlagS == <<"-", "s">>

\* a bug: the prompt is trimmed before it is passed on
build_command_trimmed(prompt, working_dir, role) ==
    <<Copilot, FlagP, strip(prompt), FlagYolo, FlagS>>

\* return ["copilot", "-p", prompt, "--yolo", "-s"]
build_command(prompt, working_dir, role) ==
    <<Copilot, FlagP, prompt, FlagYolo, FlagS>>

\* shutil.which("copilot") is not None
is_installed == path_has_copilot

Prompts == { <<"f", "i", "x", " ", "i", "t">>,
             <<"a", "\n", "b", "\n">>,
             <<"x", ";", " ", "r", "m", " ", "$", "(", "i", "d", ")", " ", "|", " ", "\"", "*", "\"">> }
WorkingDirs == {"/repo", "/repo/.worktrees/WP01"}
Roles == {"implementation", "review"}

NoBuild == [none |-> TRUE]

InitInvoker ==
    /\ path_has_copilot \in BOOLEAN
    /\ installed = <<>>
    /\ last_build = NoBuild
    /\ prev_build = NoBuild

\* the environment installs or removes the copilot binary
PathChange ==
    /\ path_has_copilot' = ~path_has_copilot
    /\ UNCHANGED <<installed, last_build, prev_build>>
    /\ UNCHANGED <<parseVars, wizardVars>>

IsInstalled ==
    /\ installed' = <<is_installed>>
    /\ UNCHANGED <<path_has_copilot, last_build, prev_build>>
    /\ UNCHANGED <<parseVars, wizardVars>>

BuildCommand ==
    \E prompt \in Prompts, working_dir \in WorkingDirs, role \in Roles :
        /\ UNCHANGED <<parseVars, wizardVars>>
        /\ last_build' = [prompt |-> prompt, working_dir |-> working_dir, role |-> role,
                          argv |-> build_command(prompt, working_dir, role)]
        /\ prev_build' = last_build
        /\ UNCHANGED <<path_has_copilot, installed>>

\* parse_output called on the same object between the other calls
ParseOutputBetween ==
    \E out \in {<<>>, <<"F", "A", "I", "L", "E", "D">>}, err \in {<<>>}, code \in {0, 1} :
        /\ UNCHANGED <<invokerVars, wizardVars>>
        /\ stdout' = out
        /\ stderr' = err
        /\ exit_code' = code
        /\ duration_seconds' = 0
        /\ result' \in parse_output(out, err, code, 0)
        /\ pc' = "done"

----------------------------------------------------------------------------
(* wizard.py: helpers                                                      *)

Header == <<"#", " ", "I", "n", "i", "t", "i", "a", "l", " ", "N", "o", "t", "e", "s", "\n", "\n">>

IsSep(c) == c = "-" \/ IsSpace(c)

\* re.sub(r'[-\s]+', '-', slug)
RECURSIVE collapse(_, _)
collapse(s, i) ==
    IF i > Len(s) THEN <<>>
    ELSE IF IsSep(s[i])
         THEN (IF i > 1 /\ IsSep(s[i - 1]) THEN <<>> ELSE <<"-">>) \o collapse(s, i + 1)
         ELSE <<s[i]>> \o collapse(s, i + 1)

\* str.strip('-')
strip_dashes(s) ==
    LET keep == {i \in 1..Len(s) : s[i] # "-"}
    IN  IF keep = {} THEN <<>>
        ELSE SubSeq(s, CHOOSE i \in keep : \A j \in keep : i <= j,
                       CHOOSE i \in keep : \A j \in keep : j <= i)

_slugify(text) ==
    LET slug == strip(lower(text))
        kept == SelectFrom(slug, 1, {i \in 1..Len(slug) : IsWord(slug[i]) \/ IsSep(slug[i])})
    IN  strip_dashes(collapse(kept, 1))

\* the loop of _prompt_raw_notes over the lines typed before end of input
RECURSIVE read_lines(_, _, _)
read_lines(typed, i, lines) ==
    IF i > Len(typed) THEN lines
    ELSE IF typed[i] = <<>> /\ lines # <<>> /\ lines[Len(lines)] = <<>>
         THEN SubSeq(lines, 1, Len(lines) - 1)
         ELSE read_lines(typed, i + 1, Append(lines, typed[i]))

_prompt_raw_notes(typed) == join_lines(read_lines(typed, 1, <<>>))

\* feature_dirs = [d for d in kitty_specs.iterdir() if d.is_dir() and feature_slug in d.name]
feature_dirs(slug) == {d \in dirs : Contains(d, slug)}

\* notes_file.write_text(f"# Initial Notes\n\n{notes}\n")
file_after_save(d, notes) == Header \o notes \o <<"\n">>

\* function update: f with d mapped to v
Put(f, d, v) == [x \in DOMAIN f \cup {d} |-> IF x = d THEN v ELSE f[x]]

----------------------------------------------------------------------------
(* wizard.py: inputs                                                       *)

FeatureNames == { <<"M", "y", " ", "D", "o", "c">>, <<"d", "o", "c">> }
Missions == {"research", "documentation", "software-dev"}
LineA == <<"A">>
LineB == <<"B">>
TypedInputs == { <<>>, <<LineA>>, <<LineB, <<>>, <<>>, LineA>>, << <<>>, <<>> >> }
DirPrefix == <<"0", "0", "1", "-">>
UnknownFeature == <<"n", "o", "p", "e">>
Actions == {"Add more notes/context", "View/edit spec.md", "View/edit tasks",
            "Run orchestration", "Check task status", "Exit"}

NoDir == <<>>

InitWizard ==
    /\ kitty_specs = FALSE
    /\ dirs = {}
    /\ notes_files = <<>>
    /\ staged = <<>>
    /\ cmd = "none"
    /\ wpc = "idle"
    /\ feature_slug = <<>>
    /\ mission = "none"
    /\ raw_notes = <<>>
    /\ feature = <<>>
    /\ notes_file = NoDir
    /\ returncode = 0
    /\ wizard_exit = 0
    /\ trace = <<>>

\* the command ends: the process and its locals are gone
Finish(code) ==
    /\ cmd' = "none"
    /\ wpc' = "idle"
    /\ feature_slug' = <<>>
    /\ mission' = "none"
    /\ raw_notes' = <<>>
    /\ feature' = <<>>
    /\ notes_file' = NoDir
    /\ wizard_exit' = code

\* _save_raw_notes once kitty-specs/ exists: None when no directory matches,
\* else the notes file of feature_dirs[0] (iterdir order is unspecified) is
\* written anew
_save_raw_notes(slug, notes) ==
    IF feature_dirs(slug) = {}
    THEN /\ notes_file' = NoDir
         /\ UNCHANGED notes_files
    ELSE \E d \in feature_dirs(slug) :
            /\ notes_file' = d
            /\ notes_files' = Put(notes_files, d, file_after_save(d, notes))

\* subprocess.run(["git", "add", str(notes_file)], cwd=repo_root)
git_add ==
    /\ staged' = Put(staged, notes_file, notes_files[notes_file])
    /\ trace' = Append(trace, "git_add")

----------------------------------------------------------------------------
(* wizard.py: new_doc                                                      *)

\* repo_root = _get_repo_root(): exit 1 outside a git repository
NewStart ==
    /\ cmd = "none"
    /\ \E in_repo \in BOOLEAN :
        IF in_repo
        THEN /\ cmd' = "new"
             /\ wpc' = "name"
             /\ trace' = <<"wizard new">>
             /\ returncode' = 0
             /\ UNCHANGED <<feature_slug, mission, raw_notes, feature, notes_file,
                            wizard_exit>>
        ELSE /\ Finish(1)
             /\ trace' = <<"wizard new">>
             /\ returncode' = 0
    /\ UNCHANGED treeVars
    /\ UNCHANGED <<parseVars, invokerVars>>

\* Step 1: --name, or the prompt when it is not given
NewName ==
    /\ cmd = "new" /\ wpc = "name"
    /\ \E given \in BOOLEAN, feature_name \in FeatureNames :
        /\ feature_slug' = _slugify(feature_name)
        /\ trace' = IF given THEN trace ELSE Append(trace, "prompt_name")
    /\ wpc' = "mission"
    /\ UNCHANGED <<cmd, mission, raw_notes, feature, notes_file, returncode, wizard_exit>>
    /\ UNCHANGED treeVars
    /\ UNCHANGED <<parseVars, invokerVars>>

\* Step 2: --mission, or the selection when it is not given
NewMission ==
    /\ cmd = "new" /\ wpc = "mission"
    /\ \E given \in BOOLEAN, m \in Missions :
        /\ mission' = m
        /\ trace' = IF given THEN trace ELSE Append(trace, "select_mission")
    /\ wpc' = "notes"
    /\ UNCHANGED <<cmd, feature_slug, raw_notes, feature, notes_file, returncode,
                   wizard_exit>>
    /\ UNCHANGED treeVars
    /\ UNCHANGED <<parseVars, invokerVars>>

\* Step 3: the confirmation and, when wanted, the notes prompt
NewNotes ==
    /\ cmd = "new" /\ wpc = "notes"
    /\ \E want_notes \in BOOLEAN, typed \in TypedInputs :
        IF want_notes
        THEN /\ raw_notes' = _prompt_raw_notes(typed)
             /\ trace' = trace \o <<"confirm_notes", "prompt_notes">>
        ELSE /\ raw_notes' = <<>>
             /\ trace' = Append(trace, "confirm_notes")
    /\ wpc' = "create"
    /\ UNCHANGED <<cmd, feature_slug, mission, feature, notes_file, returncode,
                   wizard_exit>>
    /\ UNCHANGED treeVars
    /\ UNCHANGED <<parseVars, invokerVars>>

\* a bug: the wizard goes on after a failed create-feature
NewCreateIgnoresFailure ==
    /\ cmd = "new" /\ wpc = "create"
    /\ \E rc \in {0, 1}, made \in BOOLEAN :
        /\ returncode' = rc
        /\ IF rc = 0 /\ made
           THEN /\ kitty_specs' = TRUE
                /\ dirs' = dirs \cup {DirPrefix \o feature_slug}
           ELSE UNCHANGED <<kitty_specs, dirs>>
    /\ trace' = Append(trace, "create_feature")
    /\ wpc' = "save"
    /\ UNCHANGED <<cmd, feature_slug, mission, raw_notes, feature, notes_file,
                   wizard_exit>>
    /\ UNCHANGED <<notes_files, staged>>
    /\ UNCHANGED <<parseVars, invokerVars>>

\* Step 4: spec-kitty agent feature create-feature <slug> --mission <mission>;
\* the command may create kitty-specs/001-<slug> in this tree; exit 1 when it
\* returns non-zero
NewCreate ==
    /\ cmd = "new" /\ wpc = "create"
    /\ \E rc \in {0, 1}, made \in BOOLEAN :
        /\ returncode' = rc
        /\ IF rc = 0 /\ made
           THEN /\ kitty_specs' = TRUE
                /\ dirs' = dirs \cup {DirPrefix \o feature_slug}
           ELSE UNCHANGED <<kitty_specs, dirs>>
        /\ IF rc # 0
           THEN Finish(1)
           ELSE /\ wpc' = "save"
                /\ UNCHANGED <<cmd, feature_slug, mission, raw_notes, feature,
                               notes_file, wizard_exit>>
    /\ trace' = Append(trace, "create_feature")
    /\ UNCHANGED <<notes_files, staged>>
    /\ UNCHANGED <<parseVars, invokerVars>>

\* if raw_notes: notes_file = _save_raw_notes(...); iterdir raises when
\* kitty-specs/ is missing and the command dies with exit code 1
NewSave ==
    /\ cmd = "new" /\ wpc = "save"
    /\ IF raw_notes = <<>>
       THEN /\ wpc' = "offer"
            /\ UNCHANGED <<cmd, feature_slug, mission, raw_notes, feature, notes_file,
                           wizard_exit, trace, notes_files>>
       ELSE IF ~kitty_specs
       THEN /\ Finish(1)
            /\ UNCHANGED <<trace, notes_files>>
       ELSE /\ _save_raw_notes(feature_slug, raw_notes)
            /\ trace' = IF notes_file' # NoDir THEN Append(trace, "write_notes") ELSE trace
            /\ wpc' = IF notes_file' # NoDir THEN "add" ELSE "offer"
            /\ UNCHANGED <<cmd, feature_slug, mission, raw_notes, feature, wizard_exit>>
    /\ UNCHANGED <<kitty_specs, dirs, staged, returncode>>
    /\ UNCHANGED <<parseVars, invokerVars>>

\* if notes_file: git add
NewGitAdd ==
    /\ cmd = "new" /\ wpc = "add"
    /\ git_add
    /\ wpc' = "offer"
    /\ UNCHANGED <<cmd, feature_slug, mission, raw_notes, feature, notes_file,
                   returncode, wizard_exit>>
    /\ UNCHANGED <<kitty_specs, dirs, notes_files>>
    /\ UNCHANGED <<parseVars, invokerVars>>

\* Step 5: "Start orchestration now?"; the directory is looked up again
NewOffer ==
    /\ cmd = "new" /\ wpc = "offer"
    /\ \E start_orchestrate \in BOOLEAN :
        IF ~start_orchestrate
        THEN /\ Finish(0)
             /\ trace' = Append(trace, "offer_orchestrate")
        ELSE IF ~kitty_specs
        THEN /\ Finish(1)
             /\ trace' = Append(trace, "offer_orchestrate")
        ELSE /\ Finish(0)
             /\ trace' = IF feature_dirs(feature_slug) # {}
                         THEN trace \o <<"offer_orchestrate", "run_orchestrate">>
                         ELSE Append(trace, "offer_orchestrate")
    /\ UNCHANGED returncode
    /\ UNCHANGED treeVars
    /\ UNCHANGED <<parseVars, invokerVars>>

----------------------------------------------------------------------------
(* wizard.py: update_doc                                                   *)

\* repo root, then existing = _get_existing_features(repo_root): exit 0 when
\* there is none
UpdateStart ==
    /\ cmd = "none"
    /\ \E in_repo \in BOOLEAN :
        IF ~in_repo
        THEN Finish(1)
        ELSE IF dirs = {}
        THEN Finish(0)
        ELSE /\ cmd' = "update"
             /\ wpc' = "select"
             /\ UNCHANGED <<feature_slug, mission, raw_notes, feature, notes_file,
                            wizard_exit>>
    /\ trace' = <<"wizard update">>
    /\ returncode' = 0
    /\ UNCHANGED treeVars
    /\ UNCHANGED <<parseVars, invokerVars>>

\* Step 1: --feature, or the selection among the existing features; exit 1
\* when kitty-specs/<feature> does not exist
UpdateSelect ==
    /\ cmd = "update" /\ wpc = "select"
    /\ \/ \E f \in dirs :
            /\ feature' = f
            /\ trace' = Append(trace, "select_feature")
            /\ wpc' = "action"
            /\ UNCHANGED <<cmd, feature_slug, mission, raw_notes, notes_file, wizard_exit>>
       \/ \E f \in dirs \cup {UnknownFeature} :
            IF f \in dirs
            THEN /\ feature' = f
                 /\ wpc' = "action"
                 /\ UNCHANGED <<cmd, feature_slug, mission, raw_notes, notes_file,
                                wizard_exit, trace>>
            ELSE /\ Finish(1)
                 /\ UNCHANGED trace
    /\ UNCHANGED returncode
    /\ UNCHANGED treeVars
    /\ UNCHANGED <<parseVars, invokerVars>>

\* Step 3: the action menu; "Add more notes/context" prompts for the notes
UpdateAction ==
    /\ cmd = "update" /\ wpc = "action"
    /\ \E action \in Actions, typed \in TypedInputs :
        IF action = "Add more notes/context"
        THEN IF _prompt_raw_notes(typed) # <<>>
             THEN /\ raw_notes' = _prompt_raw_notes(typed)
                  /\ wpc' = "save"
                  /\ trace' = trace \o <<"select_action", "prompt_notes">>
                  /\ UNCHANGED <<cmd, feature_slug, mission, feature, notes_file,
                                 wizard_exit>>
             ELSE /\ Finish(0)
                  /\ trace' = trace \o <<"select_action", "prompt_notes">>
        ELSE /\ Finish(0)
             /\ trace' = IF action \in {"View/edit tasks", "Run orchestration",
                                        "Check task status"}
                         THEN trace \o <<"select_action", "run_command">>
                         ELSE Append(trace, "select_action")
    /\ UNCHANGED returncode
    /\ UNCHANGED treeVars
    /\ UNCHANGED <<parseVars, invokerVars>>

\* notes_file = _save_raw_notes(repo_root, feature, raw_notes)
UpdateSave ==
    /\ cmd = "update" /\ wpc = "save"
    /\ _save_raw_notes(feature, raw_notes)
    /\ IF notes_file' # NoDir
       THEN /\ trace' = Append(trace, "write_notes")
            /\ wpc' = "add"
            /\ UNCHANGED <<cmd, feature_slug, mission, raw_notes, feature, wizard_exit>>
       ELSE /\ cmd' = "none"
            /\ wpc' = "idle"
            /\ raw_notes' = <<>>
            /\ feature' = <<>>
            /\ wizard_exit' = 0
            /\ UNCHANGED <<feature_slug, mission, trace>>
    /\ UNCHANGED <<kitty_specs, dirs, staged, returncode>>
    /\ UNCHANGED <<parseVars, invokerVars>>

\* if notes_file: "Appended notes to ..." is printed and the file is staged
UpdateGitAdd ==
    /\ cmd = "update" /\ wpc = "add"
    /\ git_add
    /\ Finish(0)
    /\ UNCHANGED returncode
    /\ UNCHANGED <<kitty_specs, dirs, notes_files>>
    /\ UNCHANGED <<parseVars, invokerVars>>

----------------------------------------------------------------------------
(* Specifications                                                          *)

\* one call of parse_output on every input
Init == InitParse /\ InitInvoker /\ path_has_copilot = TRUE /\ InitWizard
Next == ParseOutput
Spec == Init /\ [][Next]_vars

\* the calls on one invoker object, in any order
InitCalls ==
    /\ stdout = <<>> /\ stderr = <<>> /\ exit_code = 0 /\ duration_seconds = 0
    /\ result = NoResult /\ pc = "call"
    /\ InitInvoker
    /\ InitWizard
NextCalls == PathChange \/ IsInstalled \/ BuildCommand \/ ParseOutputBetween
SpecCalls == InitCalls /\ [][NextCalls]_vars

\* the wizard commands, run one after the other on one working tree
InitTree ==
    /\ stdout = <<>> /\ stderr = <<>> /\ exit_code = 0 /\ duration_seconds = 0
    /\ result = NoResult /\ pc = "call"
    /\ InitInvoker /\ path_has_copilot = TRUE
    /\ InitWizard
NextWizard ==
    \/ NewStart \/ NewName \/ NewMission \/ NewNotes \/ NewCreate \/ NewSave
    \/ NewGitAdd \/ NewOffer
    \/ UpdateStart \/ UpdateSelect \/ UpdateAction \/ UpdateSave \/ UpdateGitAdd
SpecWizard == InitTree /\ [][NextWizard]_vars

----------------------------------------------------------------------------
(* Claims about parse_output (specification Spec)                          *)

Done == pc = "done"

NoDuplicates(list) == \A i, j \in 1..Len(list) : i # j => list[i] # list[j]

\* the indices of the stdout lines with failure vocabulary
ErrorLineIndices == {i \in 1..Len(split_lines(stdout)) : IsErrorLine(split_lines(stdout)[i])}

\* the k-th smallest element of a set of numbers
Nth(S, k) == CHOOSE i \in S : Cardinality({j \in S : j < i}) = k - 1

\* C1: the result's success is true exactly when exit_code is 0, whatever
\* stdout and stderr contain.
C1_SuccessIffExitZero == Done => (result.success <=> exit_code = 0)

C1_Witness ==
    /\ Done /\ exit_code = 0 /\ result.success
    /\ IsErrorLine(stdout) /\ IsErrorLine(stderr)

\* C2: with a non-zero exit code and a non-empty stderr (whitespace-only or
\* without error lines included), errors is what the error extractor derives
\* from stderr; no stdout line gets into it.
C2_ErrorsFromStderr ==
    (Done /\ exit_code # 0 /\ stderr # <<>>)
        => result.errors = _extract_errors_from_output("None", stderr)

\* C3: with a non-zero exit code and empty stderr, errors holds at most 3
\* entries, and they are the trimmed texts of the first stdout lines that
\* contain "error" or "failed" in any case, in stdout order.
C3_StdoutFallback ==
    (Done /\ exit_code # 0 /\ stderr = <<>>) =>
        /\ Len(result.errors) <= 3
        /\ Len(result.errors) =
              (IF Cardinality(ErrorLineIndices) < 3 THEN Cardinality(ErrorLineIndices) ELSE 3)
        /\ \A k \in 1..Len(result.errors) :
              result.errors[k] = strip(split_lines(stdout)[Nth(ErrorLineIndices, k)])

C3_Witness ==
    /\ Done /\ exit_code # 0 /\ stderr = <<>>
    /\ Cardinality(ErrorLineIndices) > 3
    /\ Len(result.errors) = 3
    /\ result.errors[1] # result.errors[2]
    /\ \E i \in ErrorLineIndices : split_lines(stdout)[i] # strip(split_lines(stdout)[i])

InScenarioB == Done /\ stdout = ScenarioB /\ exit_code = 1 /\ stderr = <<>>

\* C4 as stated: in Scenario B success is false and errors has exactly 2
\* entries, one per stdout line.
C4_ScenarioBTwoErrors ==
    InScenarioB =>
        /\ result.success = FALSE
        /\ Len(result.errors) = 2
        /\ result.errors[1] = strip(split_lines(ScenarioB)[1])
        /\ result.errors[2] = strip(split_lines(ScenarioB)[2])

\* C4 amended: in Scenario B success is false and errors has exactly 1 entry,
\* "Failed to compile", the only stdout line with failure vocabulary.
C4_ScenarioBOneError ==
    InScenarioB =>
        /\ result.success = FALSE
        /\ result.errors = << <<"F", "a", "i", "l", "e", "d", " ", "t", "o", " ",
                               "c", "o", "m", "p", "i", "l", "e">> >>

C4_Witness == InScenarioB /\ Len(result.errors) = 1

\* C5: with exit code 0 and failure vocabulary in the output text, warnings
\* is non-empty, errors is empty and success is true.  Stated for failure
\* vocabulary in stdout with stderr empty, where copilot.py alone decides the
\* result (no extractor of base.py is called).
C5_SoftWarning ==
    (Done /\ exit_code = 0 /\ IsErrorLine(stdout) /\ stderr = <<>>) =>
        /\ result.warnings # <<>>
        /\ result.errors = <<>>
        /\ result.success

\* C6: errors is non-empty only if success is false; with exit code 0, empty
\* stderr and no failure vocabulary in stdout, errors is empty and success true.
C6_ErrorsOnlyOnFailure ==
    Done =>
        /\ result.errors # <<>> => ~result.success
        /\ (exit_code = 0 /\ stderr = <<>> /\ ~IsErrorLine(stdout))
              => (result.errors = <<>> /\ result.success)

C6_Witness ==
    /\ Done /\ exit_code = 0 /\ IsErrorLine(stderr) /\ IsErrorLine(stdout)
    /\ result.errors = <<>>

\* C7: files_modified holds no path twice, also when a path is matched
\* several times or by both patterns, and holds every path that was matched;
\* empty text gives an empty list.
C7_NoDuplicateFiles ==
    Done =>
        /\ NoDuplicates(result.files_modified)
        /\ Range(result.files_modified) = Range(files_found(stdout))
        /\ stdout = <<>> => result.files_modified = <<>>

C7_Witness ==
    /\ Done
    /\ \E f \in Range(findall(patterns[1], stdout, 1)) :
            f \in Range(findall(patterns[2], stdout, 1))
    /\ Len(result.files_modified) = 1

----------------------------------------------------------------------------
(* Claim about build_command (specification SpecCalls)                     *)

SameInputs(a, b) ==
    a.prompt = b.prompt /\ a.working_dir = b.working_dir /\ a.role = b.role

\* the prompt is one token, unmodified, directly after "-p"
PromptIsOneToken(b) ==
    /\ \E i \in 1..(Len(b.argv) - 1) : b.argv[i] = FlagP /\ b.argv[i + 1] = b.prompt
    /\ Cardinality({i \in 1..Len(b.argv) : b.argv[i] = b.prompt}) = 1
    /\ Len(b.argv) = 5

\* C8: two build_command calls with identical (prompt, working_dir, role),
\* whatever was called in between, return the identical argument vector; in
\* it the whole prompt is one unmodified token directly after "-p", next to
\* the flags "--yolo" and "-s".
C8_BuildCommandDeterministic ==
    /\ last_build # NoBuild =>
          /\ last_build.argv[1] = Copilot
          /\ PromptIsOneToken(last_build)
          /\ FlagYolo \in Range(last_build.argv)
          /\ FlagS \in Range(last_build.argv)
    /\ (last_build # NoBuild /\ prev_build # NoBuild /\ SameInputs(last_build, prev_build))
          => last_build.argv = prev_build.argv

C8_Witness ==
    /\ last_build # NoBuild /\ prev_build # NoBuild
    /\ SameInputs(last_build, prev_build)
    /\ \E i \in 1..Len(last_build.prompt) : last_build.prompt[i] = "\n"
    /\ installed = <<TRUE>> /\ ~path_has_copilot
    /\ pc = "done"

----------------------------------------------------------------------------
(* Claims about the wizard (specification SpecWizard)                      *)

\* the notes a notes file was written with
NotesOf(content) == SubSeq(content, Len(Header) + 1, Len(content) - 1)

\* C9: a `wizard update` addition keeps what the notes file held: after it
\* the file holds the earlier notes and the newly entered ones.
C9_UpdateAppendsNotes ==
    [][\A d \in DOMAIN notes_files :
          (cmd = "update" /\ notes_files'[d] # notes_files[d]) =>
              /\ Contains(notes_files'[d], NotesOf(notes_files[d]))
              /\ Contains(notes_files'[d], raw_notes)]_vars

InTrace(e) == e \in Range(trace)

Rank(e) ==
    CASE e = "wizard new" -> 0
      [] e = "prompt_name" -> 1
      [] e = "select_mission" -> 2
      [] e = "confirm_notes" -> 3
      [] e = "prompt_notes" -> 4
      [] e = "create_feature" -> 5
      [] e = "write_notes" -> 6
      [] e = "git_add" -> 7
      [] e = "offer_orchestrate" -> 8
      [] e = "run_orchestrate" -> 9

IsNewRun == trace # <<>> /\ trace[1] = "wizard new"

\* C10: in `wizard new` the steps come in the order name, mission, notes
\* prompt, create-feature, save notes, git add, offer orchestration; the notes
\* file is written and staged only after create-feature returned 0; when it
\* returns non-zero the wizard exits with code 1 with no write, no git add and
\* no offer; git add runs only after a notes file was written.
C10_NewFlowOrder ==
    /\ [](IsNewRun =>
            /\ \A i, j \in 1..Len(trace) : i < j => Rank(trace[i]) < Rank(trace[j])
            /\ (InTrace("write_notes") \/ InTrace("git_add") \/ InTrace("offer_orchestrate"))
                  => (InTrace("create_feature") /\ returncode = 0)
            /\ (InTrace("create_feature") /\ returncode # 0)
                  => (cmd = "none" /\ wizard_exit = 1)
            /\ InTrace("git_add") => InTrace("write_notes"))
    /\ [][(cmd = "new" /\ (notes_files' # notes_files \/ staged' # staged))
            => (InTrace("create_feature") /\ returncode = 0
                /\ (staged' # staged => InTrace("write_notes")))]_vars

C10_Witness ==
    /\ IsNewRun /\ cmd = "none" /\ wizard_exit = 1
    /\ returncode # 0 /\ trace[Len(trace)] = "create_feature"
    /\ InTrace("prompt_notes")
    /\ dirs # {}

=============================================================================
